---- MODULE Spec2Model ----
(***************************************************************************)
(* A model of code_analysis.py: the aggregation loop of main, the          *)
(* directory tree builder, the directory tree printer and the line scan of *)
(* the git-blame parser.                                                   *)
(*                                                                         *)
(* Strings that the code inspects character by character (file paths,      *)
(* extensions, blame output lines) are sequences of one-character strings. *)
(***************************************************************************)
EXTENDS Integers, Sequences, FiniteSets, TLC

VARIABLES
    pc,               \* position of main
    ls_files,         \* stdout of `git ls-files`, split into lines
    extensions,       \* args.extensions
    tracked_files,    \* main: tracked_files
    idx,              \* main: position of the aggregation loop in tracked_files
    blame_data,       \* main: blame_data
    blame_failed,     \* paths for which git blame raised CalledProcessError
    total_lines,      \* main: total_lines
    extension_stats,  \* main: extension_stats
    author_stats,     \* main: author_stats
    author_ext_stats, \* main: author_ext_stats
    dir_tree,         \* main: dir_tree
    printed,          \* directory entries written by print_directory_tree
    error,            \* exception that left main, or "none"
    bpc,              \* position of get_git_blame_info
    stdout,           \* result.stdout of git blame, as raw lines
    lines,            \* get_git_blame_info: lines
    pos,              \* get_git_blame_info: position of the scan in lines
    current_commit,   \* get_git_blame_info: current_commit
    commit_counts,    \* get_git_blame_info: commit_counts
    result            \* value returned by get_git_blame_info

mainVars == <<pc, ls_files, extensions, tracked_files, idx, blame_data,
              blame_failed, total_lines, extension_stats, author_stats,
              author_ext_stats, dir_tree, printed, error>>
blameVars == <<bpc, stdout, lines, pos, current_commit, commit_counts, result>>
vars == <<mainVars, blameVars>>

----------------------------------------------------------------------------
(* Bounds *)

MaxFiles == 2

----------------------------------------------------------------------------
(* Generic helpers *)

EmptyMap == [x \in {} |-> 0]

RECURSIVE SumValues(_)
SumValues(f) ==
    IF DOMAIN f = {} THEN 0
    ELSE LET k == CHOOSE x \in DOMAIN f : TRUE
         IN f[k] + SumValues([x \in DOMAIN f \ {k} |-> f[x]])

RECURSIVE SumOver(_, _)
SumOver(S, f) ==
    IF S = {} THEN 0
    ELSE LET k == CHOOSE x \in S : TRUE
         IN f[k] + SumOver(S \ {k}, f)

Get(f, k, default) == IF k \in DOMAIN f THEN f[k] ELSE default

Put(f, k, v) == [x \in DOMAIN f \cup {k} |-> IF x = k THEN v ELSE f[x]]

EndsWith(s, suffix) ==
    /\ Len(suffix) <= Len(s)
    /\ SubSeq(s, Len(s) - Len(suffix) + 1, Len(s)) = suffix

StartsWith(s, prefix) ==
    /\ Len(prefix) <= Len(s)
    /\ SubSeq(s, 1, Len(prefix)) = prefix

RFind(s, c) ==
    LET hits == {i \in 1..Len(s) : s[i] = c}
    IN IF hits = {} THEN 0 ELSE CHOOSE i \in hits : \A j \in hits : j <= i

----------------------------------------------------------------------------
(* Inputs of main *)

DotPy    == <<".", "p", "y">>
AdMk     == <<"a", ".", "d", "/", "m", "k">>
ABNRs    == <<"a", "/", "b", "/", "n", ".", "r", "s">>
AMPy     == <<"a", "/", "m", ".", "p", "y">>
ATDotPy  == <<"a", "/", "t", ".", ".", "p", "y">>
BDotRs   == <<"b", "/", ".", "r", "s">>
MPy      == <<"m", ".", "p", "y">>

\* candidate repository paths, in the order git ls-files lists them
RepoPaths == <<DotPy, AdMk, ABNRs, AMPy, ATDotPy, BDotRs, MPy>>

ExtensionLists ==
    { <<DotPy, <<".", "r", "s">>>>,
      <<<<"m", "k">>, DotPy>> }

RECURSIVE Pick(_, _)
\* the subsequence of s at the positions in I, in order
Pick(s, I) ==
    IF s = <<>> THEN <<>>
    ELSE LET rest == Pick(Tail(s), {i - 1 : i \in I \ {1}})
         IN IF 1 \in I THEN <<Head(s)>> \o rest ELSE rest

LsFilesOutputs ==
    { Pick(RepoPaths, I) :
        I \in {J \in SUBSET (1..Len(RepoPaths)) : Cardinality(J) <= MaxFiles} }

Authors == {<<"A">>, <<"B", "o">>}
Counts == {1, 99}

\* the mappings get_git_blame_info can return: every key is a non-empty
\* author name, every value is at least 1
BlameRecords == UNION {[S -> Counts] : S \in SUBSET Authors}

----------------------------------------------------------------------------
(* get_git_tracked_files *)

\* the list comprehension of get_git_tracked_files
FilterTracked(files, exts) ==
    SelectSeq(files, LAMBDA f : \E k \in 1..Len(exts) : EndsWith(f, exts[k]))

----------------------------------------------------------------------------
(* Path helpers used by main and build_directory_tree *)

\* a splitext that does not skip leading dots
Splitext_NoLeadingDotRule(p) ==
    LET sepIndex == RFind(p, "/")
        dotIndex == RFind(p, ".")
    IN IF dotIndex > sepIndex THEN SubSeq(p, dotIndex, Len(p)) ELSE <<>>

\* os.path.splitext(p)[1]: the suffix from the last dot, unless that dot lies
\* before the last separator or only dots stand between the separator and it
Splitext(p) ==
    LET sepIndex == RFind(p, "/")
        dotIndex == RFind(p, ".")
    IN IF /\ dotIndex > sepIndex
          /\ \E k \in (sepIndex + 1)..(dotIndex - 1) : p[k] # "."
       THEN SubSeq(p, dotIndex, Len(p))
       ELSE <<>>

RECURSIVE SplitOn(_, _)
\* s.split(c)
SplitOn(s, c) ==
    LET hits == {i \in 1..Len(s) : s[i] = c}
    IN IF hits = {} THEN <<s>>
       ELSE LET i == CHOOSE h \in hits : \A j \in hits : h <= j
            IN <<SubSeq(s, 1, i - 1)>> \o SplitOn(SubSeq(s, i + 1, Len(s)), c)

\* Path(file_path).parts for a relative path: the segments between
\* separators, empty segments and "." segments dropped
Parts(file_path) ==
    SelectSeq(SplitOn(file_path, "/"), LAMBDA seg : seg # <<>> /\ seg # <<".">>)

\* len(blame_info) in place of the sum
FileLines_CountAuthors(blame_info) == Cardinality(DOMAIN blame_info)

\* sum(blame_info.values())
FileLines(blame_info) == SumValues(blame_info)

----------------------------------------------------------------------------
(* The aggregation loop of main *)

EmptyStats ==
    [ total_lines      |-> 0,
      extension_stats  |-> EmptyMap,
      author_stats     |-> EmptyMap,
      author_ext_stats |-> EmptyMap,
      blame_data       |-> EmptyMap ]

\* an iteration that leaves out extension_stats[ext]['lines'] += file_lines
AddFile_ForgetExtensionLines(st, file_path, blame_info) ==
    LET file_lines == FileLines(blame_info)
        ext == Splitext(file_path)
        old == Get(st.extension_stats, ext, [files |-> 0, lines |-> 0])
    IN [ total_lines      |-> st.total_lines + file_lines,
         extension_stats  |->
             Put(st.extension_stats, ext,
                 [files |-> old.files + 1, lines |-> old.lines]),
         author_stats     |->
             [a \in DOMAIN st.author_stats \cup DOMAIN blame_info |->
                 Get(st.author_stats, a, 0) + Get(blame_info, a, 0)],
         author_ext_stats |->
             [k \in DOMAIN st.author_ext_stats
                    \cup {<<a, ext>> : a \in DOMAIN blame_info} |->
                 Get(st.author_ext_stats, k, 0)
                 + (IF k[2] = ext THEN Get(blame_info, k[1], 0) ELSE 0)],
         blame_data       |-> Put(st.blame_data, file_path, blame_info) ]

\* one iteration of the loop, for file_path with blame_info as returned by
\* get_git_blame_info; st holds the tables before the iteration
AddFile(st, file_path, blame_info) ==
    LET file_lines == FileLines(blame_info)
        ext == Splitext(file_path)
        old == Get(st.extension_stats, ext, [files |-> 0, lines |-> 0])
    IN [ total_lines      |-> st.total_lines + file_lines,
         extension_stats  |->
             Put(st.extension_stats, ext,
                 [files |-> old.files + 1, lines |-> old.lines + file_lines]),
         author_stats     |->
             [a \in DOMAIN st.author_stats \cup DOMAIN blame_info |->
                 Get(st.author_stats, a, 0) + Get(blame_info, a, 0)],
         author_ext_stats |->
             [k \in DOMAIN st.author_ext_stats
                    \cup {<<a, ext>> : a \in DOMAIN blame_info} |->
                 Get(st.author_ext_stats, k, 0)
                 + (IF k[2] = ext THEN Get(blame_info, k[1], 0) ELSE 0)],
         blame_data       |-> Put(st.blame_data, file_path, blame_info) ]

RECURSIVE AggregateAll(_, _, _)
\* the whole loop over files, starting from st, reading each file's record
\* from blame
AggregateAll(st, files, blame) ==
    IF files = <<>> THEN st
    ELSE AggregateAll(AddFile(st, Head(files), blame[Head(files)]),
                      Tail(files), blame)

Stats ==
    [ total_lines      |-> total_lines,
      extension_stats  |-> extension_stats,
      author_stats     |-> author_stats,
      author_ext_stats |-> author_ext_stats,
      blame_data       |-> blame_data ]

----------------------------------------------------------------------------
(* build_directory_tree                                                    *)
(*                                                                         *)
(* The tree is kept flat.  nodes maps the path of a directory (the         *)
(* sequence of its segments from the root) to the counters stored in its   *)
(* dictionary; order lists the directories in the order their dictionaries *)
(* were inserted, which is the iteration order of every subdirs mapping.   *)
(* The root is the outer defaultdict: it stores no counters, and           *)
(* hasSubdirs tells whether the key 'subdirs' has been stored in it.       *)

NewTree == [hasSubdirs |-> FALSE, nodes |-> EmptyMap, order |-> <<>>]

NewNode == [files |-> 0, lines |-> 0]

RECURSIVE Walk_LeafOnly(_, _, _, _)
\* a walk that increments the deepest directory only
Walk_LeafOnly(tree, parts, i, file_lines) ==
    IF i > Len(parts) - 1 THEN tree
    ELSE LET part == SubSeq(parts, 1, i)
             old  == Get(tree.nodes, part, NewNode)
             hit  == i = Len(parts) - 1
         IN Walk_LeafOnly(
                [ hasSubdirs |-> TRUE,
                  nodes      |-> Put(tree.nodes, part,
                                     [files |-> old.files + (IF hit THEN 1 ELSE 0),
                                      lines |-> old.lines
                                                + (IF hit THEN file_lines ELSE 0)]),
                  order      |-> IF part \in DOMAIN tree.nodes THEN tree.order
                                 ELSE Append(tree.order, part) ],
                parts, i + 1, file_lines)

RECURSIVE Walk(_, _, _, _)
\* the inner loop over parts[:-1], from its i-th segment on
Walk(tree, parts, i, file_lines) ==
    IF i > Len(parts) - 1 THEN tree
    ELSE LET part == SubSeq(parts, 1, i)
             old  == Get(tree.nodes, part, NewNode)
         IN Walk([ hasSubdirs |-> TRUE,
                   nodes      |-> Put(tree.nodes, part,
                                      [files |-> old.files + 1,
                                       lines |-> old.lines + file_lines]),
                   order      |-> IF part \in DOMAIN tree.nodes THEN tree.order
                                  ELSE Append(tree.order, part) ],
                 parts, i + 1, file_lines)

RECURSIVE BuildFrom(_, _, _)
\* the outer loop over tracked_files
BuildFrom(tree, files, blame) ==
    IF files = <<>> THEN tree
    ELSE BuildFrom(Walk(tree, Parts(Head(files)), 1, FileLines(blame[Head(files)])),
                   Tail(files), blame)

build_directory_tree(files, blame) == BuildFrom(NewTree, files, blame)

----------------------------------------------------------------------------
(* format_percentage and print_directory_tree *)

\* the number format_percentage renders, in tenths of a percent (the text
\* itself is not modelled); 0 stands for the guarded "0.0%"
format_percentage(part, whole) ==
    IF whole = 0 THEN 0 ELSE (part * 2000 + whole) \div (2 * whole)

\* a threshold test with >= in place of >
AboveThreshold_Inclusive(dirLines, total) == dirLines * 100 >= total

\* lines / total_lines > 0.01, for total_lines # 0.  The quotient of two
\* integers below 2^53 is correctly rounded, so it exceeds the double 0.01
\* exactly when the exact ratio exceeds one hundredth
AboveThreshold(dirLines, total) == dirLines * 100 > total

\* the keys of the subdirs mapping of directory dir, in insertion order
Subdirs(tree, dir) ==
    SelectSeq(tree.order,
              LAMBDA d : Len(d) = Len(dir) + 1 /\ SubSeq(d, 1, Len(dir)) = dir)

RECURSIVE SortedByLines(_, _)
\* sorted(items, key=lines, reverse=True): descending, equal keys keep their order
SortedByLines(tree, dirs) ==
    IF dirs = <<>> THEN <<>>
    ELSE LET best == CHOOSE i \in 1..Len(dirs) :
                        /\ \A j \in 1..Len(dirs) :
                              tree.nodes[dirs[j]].lines <= tree.nodes[dirs[i]].lines
                        /\ \A j \in 1..(i - 1) :
                              tree.nodes[dirs[j]].lines < tree.nodes[dirs[i]].lines
         IN <<dirs[best]>>
            \o SortedByLines(tree, SubSeq(dirs, 1, best - 1)
                                   \o SubSeq(dirs, best + 1, Len(dirs)))

RECURSIVE PrintEntries(_, _, _)
\* the loop of print_directory_tree over the sorted entries todo; out is what
\* was printed, raised the exception that ended the loop, or "none"
PrintEntries(tree, todo, total) ==
    IF todo = <<>> THEN [out |-> <<>>, raised |-> "none"]
    ELSE LET dir  == Head(todo)
             data == tree.nodes[dir]
             percentage == format_percentage(data.lines, total)
         IN IF total = 0
            THEN [out |-> <<>>, raised |-> "ZeroDivisionError"]
            ELSE LET shown == AboveThreshold(data.lines, total)
                     own   == IF shown
                              THEN <<[dir |-> dir, lines |-> data.lines,
                                      percentage |-> percentage,
                                      files |-> data.files]>>
                              ELSE <<>>
                     sub   == IF shown /\ Subdirs(tree, dir) # <<>>
                              THEN PrintEntries(tree,
                                       SortedByLines(tree, Subdirs(tree, dir)),
                                       total)
                              ELSE [out |-> <<>>, raised |-> "none"]
                 IN IF sub.raised # "none"
                    THEN [out |-> own \o sub.out, raised |-> sub.raised]
                    ELSE LET rest == PrintEntries(tree, Tail(todo), total)
                         IN [out |-> own \o sub.out \o rest.out,
                             raised |-> rest.raised]

\* print_directory_tree(tree, total_lines=total) on the root.  A root without
\* the key 'subdirs' hands out a fresh default node for it, whose items are
\* its three fields; the sort key then subscripts the integer 0
print_directory_tree(tree, total) ==
    IF ~tree.hasSubdirs
    THEN [out |-> <<>>, raised |-> "TypeError"]
    ELSE PrintEntries(tree, SortedByLines(tree, Subdirs(tree, <<>>)), total)

----------------------------------------------------------------------------
(* main *)

BlameIdle ==
    /\ bpc = "idle"
    /\ stdout = <<>>
    /\ lines = <<>>
    /\ pos = 0
    /\ current_commit = <<>>
    /\ commit_counts = EmptyMap
    /\ result = EmptyMap

Init ==
    /\ pc = "start"
    /\ ls_files \in LsFilesOutputs
    /\ extensions \in ExtensionLists
    /\ tracked_files = <<>>
    /\ idx = 0
    /\ blame_data = EmptyMap
    /\ blame_failed = {}
    /\ total_lines = 0
    /\ extension_stats = EmptyMap
    /\ author_stats = EmptyMap
    /\ author_ext_stats = EmptyMap
    /\ dir_tree = NewTree
    /\ printed = <<>>
    /\ error = "none"
    /\ BlameIdle

\* get_git_tracked_files returns a non-empty list
GetTrackedFiles ==
    /\ pc = "start"
    /\ FilterTracked(ls_files, extensions) # <<>>
    /\ tracked_files' = FilterTracked(ls_files, extensions)
    /\ idx' = 1
    /\ pc' = "aggregate"
    /\ UNCHANGED <<ls_files, extensions, blame_data, blame_failed, total_lines,
                   extension_stats, author_stats, author_ext_stats, dir_tree,
                   printed, error, blameVars>>

\* no listed file has a wanted extension: main reports it and returns
NoTrackedFiles ==
    /\ pc = "start"
    /\ FilterTracked(ls_files, extensions) = <<>>
    /\ tracked_files' = <<>>
    /\ pc' = "no_files"
    /\ UNCHANGED <<ls_files, extensions, idx, blame_data, blame_failed,
                   total_lines, extension_stats, author_stats, author_ext_stats,
                   dir_tree, printed, error, blameVars>>

\* git ls-files fails: get_git_tracked_files returns [] and main returns
LsFilesFails ==
    /\ pc = "start"
    /\ tracked_files' = <<>>
    /\ pc' = "no_files"
    /\ UNCHANGED <<ls_files, extensions, idx, blame_data, blame_failed,
                   total_lines, extension_stats, author_stats, author_ext_stats,
                   dir_tree, printed, error, blameVars>>

\* one iteration of the aggregation loop with the record blame_info
Aggregate(blame_info) ==
    LET st == AddFile(Stats, tracked_files[idx], blame_info)
    IN /\ total_lines' = st.total_lines
       /\ extension_stats' = st.extension_stats
       /\ author_stats' = st.author_stats
       /\ author_ext_stats' = st.author_ext_stats
       /\ blame_data' = st.blame_data
       /\ idx' = idx + 1

\* an iteration in which get_git_blame_info returns the parsed record
BlameOk ==
    /\ pc = "aggregate"
    /\ idx <= Len(tracked_files)
    /\ \E blame_info \in BlameRecords : Aggregate(blame_info)
    /\ UNCHANGED <<pc, ls_files, extensions, tracked_files, blame_failed,
                   dir_tree, printed, error, blameVars>>

\* an iteration in which git blame fails and get_git_blame_info returns {}
BlameFails ==
    /\ pc = "aggregate"
    /\ idx <= Len(tracked_files)
    /\ Aggregate(EmptyMap)
    /\ blame_failed' = blame_failed \cup {tracked_files[idx]}
    /\ UNCHANGED <<pc, ls_files, extensions, tracked_files, dir_tree, printed,
                   error, blameVars>>

\* the loop is over: dir_tree = build_directory_tree(tracked_files, blame_data)
BuildTree ==
    /\ pc = "aggregate"
    /\ idx > Len(tracked_files)
    /\ dir_tree' = build_directory_tree(tracked_files, blame_data)
    /\ pc' = "report"
    /\ UNCHANGED <<ls_files, extensions, tracked_files, idx, blame_data,
                   blame_failed, total_lines, extension_stats, author_stats,
                   author_ext_stats, printed, error, blameVars>>

\* the report, ending with print_directory_tree(dir_tree, total_lines=total_lines)
PrintReport ==
    /\ pc = "report"
    /\ LET r == print_directory_tree(dir_tree, total_lines)
       IN /\ printed' = r.out
          /\ error' = r.raised
          /\ pc' = IF r.raised = "none" THEN "done" ELSE "raised"
    /\ UNCHANGED <<ls_files, extensions, tracked_files, idx, blame_data,
                   blame_failed, total_lines, extension_stats, author_stats,
                   author_ext_stats, dir_tree, blameVars>>

Next ==
    \/ GetTrackedFiles
    \/ NoTrackedFiles
    \/ LsFilesFails
    \/ BlameOk
    \/ BlameFails
    \/ BuildTree
    \/ PrintReport

Spec == Init /\ [][Next]_vars

----------------------------------------------------------------------------
(* Properties of the aggregation loop, the tree and the report *)

Built == pc \in {"report", "done", "raised"}

Reported == pc \in {"done", "raised"}

\* the files the aggregation loop has processed so far
Processed == SubSeq(tracked_files, 1, idx - 1)

\* the directory segments of a path
DirOf(file_path) == SubSeq(Parts(file_path), 1, Len(Parts(file_path)) - 1)

IsPrefix(d, e) == Len(d) <= Len(e) /\ SubSeq(e, 1, Len(d)) = d

RecordedLines(file_path) == SumValues(blame_data[file_path])

ExtensionLineSum ==
    SumOver(DOMAIN extension_stats, [e \in DOMAIN extension_stats |->
                                        extension_stats[e].lines])

\* C1: after every file the aggregation loop has processed, the line counts
\* of all extension_stats entries and the counts of all author_stats entries
\* both sum to total_lines.
C1_TablesAgree ==
    /\ ExtensionLineSum = total_lines
    /\ SumValues(author_stats) = total_lines

C1_Witness ==
    /\ pc = "aggregate"
    /\ idx > 2
    /\ blame_failed # {}
    /\ total_lines > 1
    /\ Cardinality(DOMAIN author_stats) = 2
    /\ Cardinality(DOMAIN extension_stats) = 2

\* the keys stored in the root dictionary of the tree
RootKeys(tree) == IF tree.hasSubdirs THEN {"subdirs"} ELSE {}

TopLevel(tree) == {d \in DOMAIN tree.nodes : Len(d) = 1}

\* the totals the tree determines for the root: those of its direct children
RootLineCount(tree) ==
    SumOver(TopLevel(tree), [d \in TopLevel(tree) |-> tree.nodes[d].lines])

RootFileCount(tree) ==
    SumOver(TopLevel(tree), [d \in TopLevel(tree) |-> tree.nodes[d].files])

InDirectory == {i \in 1..Len(tracked_files) : DirOf(tracked_files[i]) # <<>>}

ChildrenOf(tree, d) ==
    {c \in DOMAIN tree.nodes : Len(c) = Len(d) + 1 /\ IsPrefix(d, c)}

FilesDirectlyIn(d) ==
    {i \in 1..Len(tracked_files) : DirOf(tracked_files[i]) = d}

FilesBeneath(d) ==
    {i \in 1..Len(tracked_files) : IsPrefix(d, DirOf(tracked_files[i]))}

\* C3: every directory node of the built tree has line_count = the sum of
\* its children's line_counts plus the lines of the files directly in it, and
\* file_count = the number of files anywhere beneath it.
C3_Rollup ==
    Built =>
        \A d \in DOMAIN dir_tree.nodes :
            /\ dir_tree.nodes[d].lines =
                   SumOver(ChildrenOf(dir_tree, d),
                           [c \in ChildrenOf(dir_tree, d) |-> dir_tree.nodes[c].lines])
                   + SumOver(FilesDirectlyIn(d),
                             [i \in FilesDirectlyIn(d) |->
                                 RecordedLines(tracked_files[i])])
            /\ dir_tree.nodes[d].files = Cardinality(FilesBeneath(d))

C3_Witness ==
    /\ Built
    /\ \E d \in DOMAIN dir_tree.nodes :
          /\ ChildrenOf(dir_tree, d) # {}
          /\ \E c \in ChildrenOf(dir_tree, d) : dir_tree.nodes[c].lines > 0
          /\ \E i \in FilesDirectlyIn(d) : RecordedLines(tracked_files[i]) > 0

Kept == SelectSeq(tracked_files, LAMBDA f : f \notin blame_failed)

\* C4: a file whose blame failed is excluded from the tables and from the
\* tree: they are what the run over the other files alone produces.
C4_FailedFileExcluded ==
    Built =>
        LET alone == AggregateAll(EmptyStats, Kept, blame_data)
        IN /\ total_lines = alone.total_lines
           /\ extension_stats = alone.extension_stats
           /\ author_stats = alone.author_stats
           /\ author_ext_stats = alone.author_ext_stats
           /\ dir_tree.nodes = build_directory_tree(Kept, blame_data).nodes

\* C5: rendering never divides by zero: with total_lines = 0, whatever the
\* shape of the tree, print_directory_tree does not end in a division by zero.
C5_NoDivisionByZero ==
    (Reported /\ total_lines = 0) => error # "ZeroDivisionError"

PrintedDirs == {printed[i].dir : i \in 1..Len(printed)}

\* C6: with total_lines > 0 the directories printed are exactly the nodes,
\* at any depth, whose line_count * 100 > total_lines.
C6_PrintedAboveOnePercent ==
    (Reported /\ total_lines > 0) =>
        PrintedDirs = {d \in DOMAIN dir_tree.nodes :
                          dir_tree.nodes[d].lines * 100 > total_lines}

C6_Witness ==
    /\ pc = "done"
    /\ total_lines > 0
    /\ PrintedDirs # {}
    /\ \E d \in DOMAIN dir_tree.nodes :
          /\ dir_tree.nodes[d].lines * 100 = total_lines
          /\ d \notin PrintedDirs

FinalSegment(file_path) == Parts(file_path)[Len(Parts(file_path))]

\* the suffix of the final segment from its last dot, empty without a dot
LastDotSuffix(file_path) ==
    LET seg == FinalSegment(file_path)
        dot == RFind(seg, ".")
    IN IF dot = 0 THEN <<>> ELSE SubSeq(seg, dot, Len(seg))

\* the same, but empty too when only dots precede the last dot
LastDotSuffixAfterName(file_path) ==
    LET seg == FinalSegment(file_path)
        dot == RFind(seg, ".")
    IN IF dot = 0 \/ \A k \in 1..(dot - 1) : seg[k] = "."
       THEN <<>>
       ELSE SubSeq(seg, dot, Len(seg))

\* every processed file is counted in the bucket rule names for it
BucketsFollow(rule(_)) ==
    /\ \A i \in 1..Len(Processed) : rule(Processed[i]) \in DOMAIN extension_stats
    /\ \A e \in DOMAIN extension_stats :
          extension_stats[e].files =
              Cardinality({i \in 1..Len(Processed) : rule(Processed[i]) = e})

\* C9, as claimed: the bucket of a file is its final segment from the last
\* '.' on, and empty exactly when the final segment has no '.'.
C9_BucketIsLastDotSuffix == BucketsFollow(LastDotSuffix)

\* C9, amended: the bucket is the final segment from its last '.' on when a
\* character other than '.' precedes that dot in the segment, and empty
\* otherwise.
C9_BucketIgnoresLeadingDots == BucketsFollow(LastDotSuffixAfterName)

C9_Witness ==
    /\ \E i \in 1..Len(Processed) :
          /\ RFind(FinalSegment(Processed[i]), ".") = 1
          /\ <<>> \in DOMAIN extension_stats
    /\ \E i \in 1..Len(Processed) :
          /\ RFind(FinalSegment(Processed[i]), ".") > 1
          /\ LastDotSuffix(Processed[i]) \in DOMAIN extension_stats

\* C10: when every tracked file lies directly at the repository root and
\* total_lines > 0, the report completes without raising and prints no
\* directory.
C10_RootOnlyPrintsNothing ==
    ( /\ Reported
      /\ total_lines > 0
      /\ \A i \in 1..Len(tracked_files) : DirOf(tracked_files[i]) = <<>> )
    => (error = "none" /\ printed = <<>>)

----------------------------------------------------------------------------
(* get_git_blame_info *)

ShaLen == 40

HexDigits == {"0", "1", "2", "3", "4", "5", "6", "7", "8", "9",
              "a", "b", "c", "d", "e", "f"}

Whitespace == {" ", "\t", "\n", "\r"}

AuthorPrefix == <<"a", "u", "t", "h", "o", "r", " ">>

\* what reading the pipe in text mode does to the bytes git wrote: "\r\n"
\* and a lone "\r" both become "\n"
UniversalNewlines(s) ==
    LET kept == SelectSeq([i \in 1..Len(s) |-> i],
                          LAMBDA i : ~(s[i] = "\n" /\ i > 1 /\ s[i - 1] = "\r"))
    IN [k \in 1..Len(kept) |-> IF s[kept[k]] = "\r" THEN "\n" ELSE s[kept[k]]]

\* line.startswith('author ')
IsAuthorLine(line) == StartsWith(line, AuthorPrefix)

\* re.match(r'^[0-9a-f]{40}', line)
IsCommitLine(line) ==
    /\ Len(line) >= ShaLen
    /\ \A i \in 1..ShaLen : line[i] \in HexDigits

\* line.replace('author ', '', 1) on a line that starts with 'author ': the
\* first occurrence is the prefix
AuthorOf(line) == SubSeq(line, Len(AuthorPrefix) + 1, Len(line))

\* line.split()[0] on a line that starts with a non-blank character
FirstToken(line) ==
    LET blanks == {i \in 1..Len(line) : line[i] \in Whitespace}
    IN IF blanks = {} THEN line
       ELSE SubSeq(line, 1, (CHOOSE i \in blanks : \A j \in blanks : i <= j) - 1)

\* None
NoCommit == <<>>

\* lines 45-50: the author branch of the scan
CountAuthor(counts, commit, line) ==
    LET author == AuthorOf(line)
    IN IF commit # NoCommit /\ author # <<>>
       THEN Put(counts, author, Get(counts, author, 0) + 1)
       ELSE counts

----------------------------------------------------------------------------
(* Inputs of get_git_blame_info: the bytes git blame --line-porcelain writes *)

MaxLines == 3
MaxBlocks == 2

CommitLine == [i \in 1..ShaLen |-> "a"] \o <<" ", "1", " ", "1", " ", "1">>
ShortHexLine == [i \in 1..(ShaLen - 1) |-> "a"]
AuthorLine(name) == AuthorPrefix \o name
AuthorMailLine == <<"a", "u", "t", "h", "o", "r", "-", "m", "a", "i", "l", " ", "<", "a", ">">>
FilenameLine == <<"f", "i", "l", "e", "n", "a", "m", "e", " ", "f">>
ContentLine == <<"\t", "x">>
\* a source line holding a carriage return followed by text
ContentLineWithCR == <<"\t", "x", "\r">> \o AuthorLine(<<"A">>)

AuthorNames == {<<>>, <<"A">>, <<"B", "o">>}
ContentLines == {ContentLine, ContentLineWithCR}

AnyLines ==
    {CommitLine, ShortHexLine, AuthorMailLine, ContentLine, ContentLineWithCR}
    \cup {AuthorLine(n) : n \in AuthorNames}

RECURSIVE JoinLines(_)
\* every line followed by a newline
JoinLines(ls) ==
    IF ls = <<>> THEN <<>>
    ELSE Head(ls) \o <<"\n">> \o JoinLines(Tail(ls))

RECURSIVE Flatten(_)
Flatten(ss) == IF ss = <<>> THEN <<>> ELSE Head(ss) \o Flatten(Tail(ss))

\* the metadata block and content line of one source line
Block(name, content) ==
    <<CommitLine, AuthorLine(name), AuthorMailLine, FilenameLine, content>>

Blocks == {Block(n, c) : n \in AuthorNames, c \in ContentLines}

ArbitraryTexts ==
    {JoinLines(ls) : ls \in UNION {[1..n -> AnyLines] : n \in 0..MaxLines}}

PorcelainTexts ==
    {JoinLines(Flatten(bs)) : bs \in UNION {[1..n -> Blocks] : n \in 1..MaxBlocks}}

----------------------------------------------------------------------------
(* The scan of get_git_blame_info, one step per line *)

MainIdle ==
    /\ pc = "idle"
    /\ ls_files = <<>>
    /\ extensions = <<>>
    /\ tracked_files = <<>>
    /\ idx = 0
    /\ blame_data = EmptyMap
    /\ blame_failed = {}
    /\ total_lines = 0
    /\ extension_stats = EmptyMap
    /\ author_stats = EmptyMap
    /\ author_ext_stats = EmptyMap
    /\ dir_tree = NewTree
    /\ printed = <<>>
    /\ error = "none"

InitBlame ==
    /\ MainIdle
    /\ bpc = "start"
    /\ stdout \in ArbitraryTexts \cup PorcelainTexts
    /\ lines = <<>>
    /\ pos = 0
    /\ current_commit = NoCommit
    /\ commit_counts = EmptyMap
    /\ result = EmptyMap

\* git blame succeeds: lines 40-42
RunBlame ==
    /\ bpc = "start"
    /\ lines' = SplitOn(UniversalNewlines(stdout), "\n")
    /\ pos' = 1
    /\ commit_counts' = EmptyMap
    /\ current_commit' = NoCommit
    /\ bpc' = "scan"
    /\ UNCHANGED <<stdout, result, mainVars>>

\* git blame fails: the CalledProcessError handler returns {}
BlameRaises ==
    /\ bpc = "start"
    /\ result' = EmptyMap
    /\ bpc' = "failed"
    /\ UNCHANGED <<stdout, lines, pos, current_commit, commit_counts, mainVars>>

ScanAuthor ==
    /\ bpc = "scan"
    /\ pos <= Len(lines)
    /\ IsAuthorLine(lines[pos])
    /\ commit_counts' = CountAuthor(commit_counts, current_commit, lines[pos])
    /\ pos' = pos + 1
    /\ UNCHANGED <<bpc, stdout, lines, current_commit, result, mainVars>>

ScanCommit ==
    /\ bpc = "scan"
    /\ pos <= Len(lines)
    /\ ~IsAuthorLine(lines[pos])
    /\ IsCommitLine(lines[pos])
    /\ current_commit' = FirstToken(lines[pos])
    /\ pos' = pos + 1
    /\ UNCHANGED <<bpc, stdout, lines, commit_counts, result, mainVars>>

ScanOther ==
    /\ bpc = "scan"
    /\ pos <= Len(lines)
    /\ ~IsAuthorLine(lines[pos])
    /\ ~IsCommitLine(lines[pos])
    /\ pos' = pos + 1
    /\ UNCHANGED <<bpc, stdout, lines, current_commit, commit_counts, result,
                   mainVars>>

ReturnCounts ==
    /\ bpc = "scan"
    /\ pos > Len(lines)
    /\ result' = commit_counts
    /\ bpc' = "returned"
    /\ UNCHANGED <<stdout, lines, pos, current_commit, commit_counts, mainVars>>

NextBlame ==
    \/ RunBlame
    \/ BlameRaises
    \/ ScanAuthor
    \/ ScanCommit
    \/ ScanOther
    \/ ReturnCounts

SpecBlame == InitBlame /\ [][NextBlame]_vars

----------------------------------------------------------------------------
(* Properties of the blame parser *)

Scanned == SubSeq(lines, 1, pos - 1)

CommitLinesSeen == Len(SelectSeq(Scanned, IsCommitLine))

\* C7: for any input lines, each commit-identifier line gives rise to at most
\* one author increment, so the counts never sum to more than the number of
\* commit-identifier lines seen.
C7_AtMostOnePerCommit ==
    bpc \in {"scan", "returned"} => SumValues(commit_counts) <= CommitLinesSeen

\* the lines git wrote, before the pipe is decoded
WrittenLines ==
    LET ls == SplitOn(stdout, "\n")
    IN SubSeq(ls, 1, Len(ls) - 1)

IsContentLine(line) == StartsWith(line, <<"\t">>)

RECURSIVE WellFormedFrom(_, _)
\* ls is a sequence of blocks, each a commit-identifier line, an author
\* line, other metadata lines and a content line; expect tells what the
\* next line must be
WellFormedFrom(ls, expect) ==
    IF ls = <<>> THEN expect = "commit"
    ELSE LET l == Head(ls)
         IN CASE expect = "commit" ->
                    IsCommitLine(l) /\ WellFormedFrom(Tail(ls), "author")
              [] expect = "author" ->
                    IsAuthorLine(l) /\ WellFormedFrom(Tail(ls), "content")
              [] OTHER ->
                    IF IsContentLine(l) THEN WellFormedFrom(Tail(ls), "commit")
                    ELSE /\ ~IsCommitLine(l)
                         /\ ~IsAuthorLine(l)
                         /\ WellFormedFrom(Tail(ls), "content")

WellFormed == WrittenLines # <<>> /\ WellFormedFrom(WrittenLines, "commit")

ContentLineCount == Len(SelectSeq(WrittenLines, IsContentLine))

\* C8: for well-formed porcelain text, with any author display name, the
\* returned counts sum to the number of content lines.
C8_Conservation ==
    (bpc = "returned" /\ WellFormed) => SumValues(result) = ContentLineCount

====
